---- MODULE Spec2Model ----
(***************************************************************************)
(* Model of NeXtSRGAN/modules/nextsrgan.py: the trainability-gated batch   *)
(* normalisation layer, the residual dense blocks, and the two builders    *)
(* RRDB_Model and DiscriminatorVGG128.                                     *)
(*                                                                         *)
(* A tensor is [h, w, groups]: its height, its width and, along the        *)
(* channel axis, a sequence of channel groups [ch, terms].  terms says     *)
(* what the group holds: a set of <<factors, atom>>, the sum over its      *)
(* members of atom scaled by every factor of the sequence factors.  A      *)
(* layer output is the atom of the layer's name with no factor.            *)
(***************************************************************************)
EXTENDS Integers, Sequences, FiniteSets, TLC

VARIABLES
    \* BatchNormalization layer
    trainable, moving_mean, moving_variance, bn_last,
    \* one call of ResInResDenseBlock
    blk, rrdb_pc, rrdb_x, rrdb_out, rrdb_ret, rdb_no, rdb_xs, rdb_in, rdb_ret,
    \* one run of RRDB_Model
    gen_args, gen_pc, gen_nf, gen_nb, gen_trunk, gen_i, gen_t, gen_fea,
    gen_size_fea, gen_outs, gen_result,
    \* one run of DiscriminatorVGG128
    disc_args, disc_pc, disc_x, disc_layers, disc_shapes, disc_result

bnVars == <<trainable, moving_mean, moving_variance, bn_last>>
rdbVars == <<blk, rrdb_pc, rrdb_x, rrdb_out, rrdb_ret, rdb_no, rdb_xs, rdb_in,
             rdb_ret>>
genVars == <<gen_args, gen_pc, gen_nf, gen_nb, gen_trunk, gen_i, gen_t,
             gen_fea, gen_size_fea, gen_outs, gen_result>>
discVars == <<disc_args, disc_pc, disc_x, disc_layers, disc_shapes,
              disc_result>>
vars == <<bnVars, rdbVars, genVars, discVars>>

----------------------------------------------------------------------------
(* Bounds of the model.                                                    *)

\* batch elements range over the multiples of ten up to 10 * MaxX
MaxX == 1
\* elements of one batch
BatchSize == 2
\* feature widths nf and growth widths gc range over 1..MaxNf, 1..MaxGc
MaxNf == 2
MaxGc == 2
\* image channels range over 1..MaxChannels
MaxChannels == 3
\* heights and widths of a block's input range over 1..MaxDim
MaxDim == 2
\* number of RRDB blocks of the trunk ranges over 1..MaxNb
MaxNb == 2
\* generator sizes range over 1..MaxGenSize (and None)
MaxGenSize == 32
\* discriminator sizes range over 1..MaxDiscSize
MaxDiscSize == 128

None == "None"

----------------------------------------------------------------------------
(* BatchNormalization (lines 19-30).                                       *)

Momentum10 == 9
Tenth == 10

XVals == {Tenth * k : k \in 0..MaxX}

\* the batches, up to the order of their elements: neither statistic depends
\* on it, and element i of the output is a function of element i of the batch
Batches ==
    {b \in [1..BatchSize -> XVals] :
        \A i \in 1..(BatchSize - 1) : b[i] <= b[i + 1]}
TrainingArgs == {"True", "False", None}

RECURSIVE SumTo(_, _)
SumTo(f, n) == IF n = 0 THEN 0 ELSE f[n] + SumTo(f, n - 1)

BatchMean(x) == SumTo(x, Len(x)) \div Len(x)

BatchVariance(x) ==
    LET m == BatchMean(x)
        sq == [i \in 1..Len(x) |-> (x[i] - m) * (x[i] - m)]
    IN SumTo(sq, Len(x)) \div Len(x)

\* moving = moving * momentum + batch * (1 - momentum)
MovingAverage(moving, batch) ==
    (Momentum10 * moving + (Tenth - Momentum10) * batch) \div Tenth

\* element i normalised: (x[i] - mean) / sqrt(var + epsilon), kept exactly as
\* the numerator and the variance under the root
Normalize(x, mean, var) ==
    [i \in 1..Len(x) |-> [num |-> x[i] - mean, den2 |-> var]]

\* faulty variant: the caller's flag alone decides
UngatedTraining(training, layer_trainable) ==
    training = "True"

\* faulty variant: an absent flag counts as a training pass
NoneIsTraining(training, layer_trainable) ==
    (training # "False") /\ layer_trainable

\* lines 27-29: None becomes False, then logical_and with self.trainable
GatedTraining(training, layer_trainable) ==
    LET t == IF training = None THEN FALSE ELSE training = "True"
    IN t /\ layer_trainable

\* line 30, the inherited call: a training pass normalises with the batch
\* statistics and moves the running statistics towards them, any other pass
\* normalises with the running statistics and leaves them alone
SuperCall(x, training, mean, var) ==
    IF training
    THEN [out |-> Normalize(x, BatchMean(x), BatchVariance(x)),
          mean |-> MovingAverage(mean, BatchMean(x)),
          var |-> MovingAverage(var, BatchVariance(x))]
    ELSE [out |-> Normalize(x, mean, var), mean |-> mean, var |-> var]

\* BatchNormalization.call(x, training) on a layer in the given state
CallResult(x, training, layer_trainable, mean, var) ==
    SuperCall(x, GatedTraining(training, layer_trainable), mean, var)

NoCall == [called |-> FALSE, x |-> <<>>, training |-> None,
           trainable |-> TRUE, flag |-> FALSE, out |-> <<>>]

InitialMean == 0
InitialVariance == 1

BNCall(x, training) ==
    LET r == CallResult(x, training, trainable, moving_mean, moving_variance)
    IN /\ moving_mean' = r.mean
       /\ moving_variance' = r.var
       /\ bn_last' = [called |-> TRUE, x |-> x, training |-> training,
                      trainable |-> trainable,
                      flag |-> GatedTraining(training, trainable),
                      out |-> r.out]
       /\ UNCHANGED <<trainable, rdbVars, genVars, discVars>>

\* the owner of the layer freezes or unfreezes it
SetTrainable(b) ==
    /\ trainable # b
    /\ trainable' = b
    /\ UNCHANGED <<moving_mean, moving_variance, bn_last, rdbVars, genVars,
                   discVars>>

BNNext ==
    \/ \E x \in Batches, t \in TrainingArgs : BNCall(x, t)
    \/ \E b \in BOOLEAN : SetTrainable(b)

----------------------------------------------------------------------------
(* Tensors and the library layers the module composes.                     *)

ShapeError == [h |-> 0, w |-> 0, groups |-> <<>>]
IsError(t) == t.groups = <<>>

Atom(name) == {<<<<>>, name>>}

NewTensor(h, w, ch, name) ==
    [h |-> h, w |-> w, groups |-> <<[ch |-> ch, terms |-> Atom(name)]>>]

RECURSIVE SumCh(_, _)
SumCh(groups, n) == IF n = 0 THEN 0 ELSE groups[n].ch + SumCh(groups, n - 1)

Channels(t) == SumCh(t.groups, Len(t.groups))

Terms(t) == UNION {t.groups[i].terms : i \in DOMAIN t.groups}

Shape(t) == <<t.h, t.w, Channels(t)>>

\* a tensor bound to a local variable of a call, or handed on as a layer output
Bind(t, name) ==
    IF IsError(t) THEN ShapeError ELSE NewTensor(t.h, t.w, Channels(t), name)

CeilDiv(a, b) == (a + b - 1) \div b

\* Conv2D(filters, strides, padding='same')(t): same-padding keeps
\* ceil(dim / strides) of every spatial dimension, whatever the kernel size
Conv2D(t, filters, strides, name) ==
    IF IsError(t) THEN ShapeError
    ELSE NewTensor(CeilDiv(t.h, strides), CeilDiv(t.w, strides), filters, name)

\* an elementwise layer (GELU, batch normalisation)
Elementwise(t, name) == Bind(t, name)

RECURSIVE ConcatGroups(_, _)
ConcatGroups(ts, n) ==
    IF n = 0 THEN <<>> ELSE ConcatGroups(ts, n - 1) \o ts[n].groups

\* tf.concat(ts, 3): the channel groups of the tensors, in the order given
Concat(ts) ==
    IF \E i \in DOMAIN ts :
           IsError(ts[i]) \/ ts[i].h # ts[1].h \/ ts[i].w # ts[1].w
    THEN ShapeError
    ELSE [h |-> ts[1].h, w |-> ts[1].w, groups |-> ConcatGroups(ts, Len(ts))]

\* t * beta
Scale(t, beta) ==
    [h |-> t.h, w |-> t.w,
     groups |-> [i \in DOMAIN t.groups |->
                    [ch |-> t.groups[i].ch,
                     terms |-> {<<Append(q[1], beta), q[2]>> :
                                    q \in t.groups[i].terms}]]]

Broadcastable(p, q) == p = q \/ p = 1 \/ q = 1
BroadcastDim(p, q) == IF p = 1 THEN q ELSE p

\* a + b, elementwise with broadcasting
Add(a, b) ==
    IF \/ IsError(a) \/ IsError(b)
       \/ ~Broadcastable(a.h, b.h) \/ ~Broadcastable(a.w, b.w)
       \/ ~Broadcastable(Channels(a), Channels(b))
    THEN ShapeError
    ELSE [h |-> BroadcastDim(a.h, b.h), w |-> BroadcastDim(a.w, b.w),
          groups |-> <<[ch |-> BroadcastDim(Channels(a), Channels(b)),
                        terms |-> Terms(a) \cup Terms(b)]>>]

\* tf.image.resize(t, [height, width], method='nearest')
Resize(t, height, width, name) ==
    IF IsError(t) THEN ShapeError
    ELSE NewTensor(height, width, Channels(t), name)

----------------------------------------------------------------------------
(* ResDenseBlock_5C (lines 34-57) and ResInResDenseBlock (lines 61-75).    *)

ResBetas == {2, 5}
XNames == <<"x1", "x2", "x3", "x4", "x5">>
NumConvs == 5
NumRDBs == 3

\* faulty variant: the last convolution keeps the growth width
AllGrowthFilters(k, nf, gc) == gc

\* lines 45-49: filters of conv1..conv5
ConvFilters(k, nf, gc) == IF k < NumConvs THEN gc ELSE nf

\* faulty variant: a plain chain, each convolution fed by the one before it
ChainInput(xs) == xs[Len(xs)]

\* lines 52-56: what the next convolution is given, xs = <<x, x1, ...>>
DenseInput(xs) == Concat(xs)

\* lines 57 and 75: body * self.res_beta + x
Residual(body, beta, x) == Add(Scale(body, beta), x)

NoReturn == [returned |-> FALSE, x |-> ShapeError, body |-> ShapeError,
             out |-> ShapeError]

\* lines 52-56: x_k = self.conv_k(tf.concat([x, x1, .., x_(k-1)], 3))
RDBConv(k) ==
    /\ rrdb_pc = "rdb"
    /\ Len(rdb_xs) = k
    /\ rdb_in' = Append(rdb_in, DenseInput(rdb_xs))
    /\ rdb_xs' = Append(rdb_xs,
                        Conv2D(DenseInput(rdb_xs),
                               ConvFilters(k, blk.nf, blk.gc), 1, XNames[k]))
    /\ UNCHANGED <<blk, rrdb_pc, rrdb_x, rrdb_out, rrdb_ret, rdb_no, rdb_ret>>
    /\ UNCHANGED <<bnVars, genVars, discVars>>

\* line 57, and lines 72-74: the block's result is rebound to out and given
\* to the next block
RDBReturn ==
    /\ rrdb_pc = "rdb"
    /\ Len(rdb_xs) = NumConvs + 1
    /\ LET r == Residual(rdb_xs[NumConvs + 1], blk.res_beta, rdb_xs[1])
       IN /\ rdb_ret' = [returned |-> TRUE, x |-> rdb_xs[1],
                         body |-> rdb_xs[NumConvs + 1], out |-> r]
          /\ IF IsError(r)
             THEN /\ rrdb_pc' = "error"
                  /\ UNCHANGED <<rrdb_out, rdb_no, rdb_xs, rdb_in>>
             ELSE /\ rrdb_out' = Bind(r, "out")
                  /\ IF rdb_no < NumRDBs
                     THEN /\ rdb_no' = rdb_no + 1
                          /\ rdb_xs' = <<Bind(r, "x")>>
                          /\ rdb_in' = <<>>
                          /\ UNCHANGED rrdb_pc
                     ELSE /\ rrdb_pc' = "residual"
                          /\ UNCHANGED <<rdb_no, rdb_xs, rdb_in>>
    /\ UNCHANGED <<blk, rrdb_x, rrdb_ret>>
    /\ UNCHANGED <<bnVars, genVars, discVars>>

\* line 75
RRDBReturn ==
    /\ rrdb_pc = "residual"
    /\ LET r == Residual(rrdb_out, blk.res_beta, rrdb_x)
       IN /\ rrdb_ret' = [returned |-> TRUE, x |-> rrdb_x, body |-> rrdb_out,
                          out |-> r]
          /\ rrdb_pc' = IF IsError(r) THEN "error" ELSE "done"
    /\ UNCHANGED <<blk, rrdb_x, rrdb_out, rdb_no, rdb_xs, rdb_in, rdb_ret>>
    /\ UNCHANGED <<bnVars, genVars, discVars>>

RDBNext ==
    \/ \E k \in 1..NumConvs : RDBConv(k)
    \/ RDBReturn
    \/ RRDBReturn

\* the blocks as functions of their input, for the builders
RECURSIVE RDBFeatures(_, _, _, _)
RDBFeatures(x, nf, gc, k) ==
    IF k = 0 THEN <<x>>
    ELSE LET xs == RDBFeatures(x, nf, gc, k - 1)
         IN Append(xs, Conv2D(DenseInput(xs), ConvFilters(k, nf, gc), 1,
                              XNames[k]))

ResDenseBlock_5C(x, nf, gc, beta) ==
    Residual(RDBFeatures(Bind(x, "x"), nf, gc, NumConvs)[NumConvs + 1], beta,
             Bind(x, "x"))

RECURSIVE RDBChain(_, _, _, _, _)
RDBChain(x, nf, gc, beta, n) ==
    IF n = 0 THEN x
    ELSE ResDenseBlock_5C(RDBChain(x, nf, gc, beta, n - 1), nf, gc, beta)

ResInResDenseBlock(x, nf, gc, beta) ==
    Residual(Bind(RDBChain(x, nf, gc, beta, NumRDBs), "out"), beta,
             Bind(x, "x"))

----------------------------------------------------------------------------
(* RRDB_Model (lines 79-110).                                              *)

DefaultBeta == 2

\* the argument size: <<>> for None, <<s>> for the integer s
NoSize == <<>>

CfgKeys == {"nf", "nb"}
CfgVals == 1..(IF MaxNf > MaxNb THEN MaxNf ELSE MaxNb)
CfgNets ==
    {c \in UNION {[D -> CfgVals] : D \in SUBSET CfgKeys} :
        /\ ("nf" \in DOMAIN c => c["nf"] <= MaxNf)
        /\ ("nb" \in DOMAIN c => c["nb"] <= MaxNb)}

\* faulty variant: a lookup that falls back to a default, as dict.get does
GetOrDefault(d, key) ==
    [ok |-> TRUE, val |-> IF key \in DOMAIN d THEN d[key] ELSE 1]

\* line 80: d[key] raises KeyError when the key is missing
GetItem(d, key) ==
    IF key \in DOMAIN d THEN [ok |-> TRUE, val |-> d[key]]
    ELSE [ok |-> FALSE, val |-> 0]

\* lines 99-100: size_fea_h and size_fea_w, read from the shape of fea when
\* size is None
SizeFea(size, fea) ==
    IF size = NoSize THEN <<fea.h, fea.w>> ELSE <<size[1], size[1]>>

\* faulty variant: both resizes double
AlwaysDouble(size_fea, scale) == <<size_fea[1] * 2, size_fea[2] * 2>>

\* lines 101 and 104: [size_fea_h * scale, size_fea_w * scale]
ResizeTarget(size_fea, scale) == <<size_fea[1] * scale, size_fea[2] * scale>>

\* faulty variant: the last convolution keeps the feature width
LastFiltersNf(channels, nf) == nf

\* line 108
LastFilters(channels, nf) == channels

NoFunction == [n \in {} |-> ShapeError]
NoModel == [built |-> FALSE, inputs |-> ShapeError, outputs |-> ShapeError]

\* an image the built model accepts: size x size, or any when size is None
GenArgs ==
    {[size |-> <<s>>, channels |-> c, cfg_net |-> n, gc |-> g,
      ih |-> s, iw |-> s] :
        s \in 1..MaxGenSize, c \in 1..MaxChannels, n \in CfgNets,
        g \in 1..MaxGc}
    \cup
    {[size |-> NoSize, channels |-> c, cfg_net |-> n, gc |-> g,
      ih |-> d[1], iw |-> d[2]] :
        d \in (1..MaxDim) \X (1..MaxDim), c \in 1..MaxChannels, n \in CfgNets,
        g \in 1..MaxGc}

\* line 80
GenLookup ==
    /\ gen_pc = "cfg"
    /\ LET nf == GetItem(gen_args.cfg_net, "nf")
           nb == GetItem(gen_args.cfg_net, "nb")
       IN IF nf.ok /\ nb.ok
          THEN /\ gen_nf' = nf.val
               /\ gen_nb' = nb.val
               /\ gen_pc' = "trunk"
               /\ UNCHANGED gen_result
          ELSE /\ gen_result' = [error |-> "KeyError", model |-> NoModel]
               /\ gen_pc' = "raised"
               /\ UNCHANGED <<gen_nf, gen_nb>>
    /\ UNCHANGED <<gen_args, gen_trunk, gen_i, gen_t, gen_fea, gen_size_fea,
                   gen_outs>>
    /\ UNCHANGED <<bnVars, rdbVars, discVars>>

\* lines 88-90
GenBuildTrunk ==
    /\ gen_pc = "trunk"
    /\ gen_trunk' = [i \in 1..gen_nb |-> <<"RRDB", i - 1>>]
    /\ gen_pc' = "input"
    /\ UNCHANGED <<gen_args, gen_nf, gen_nb, gen_i, gen_t, gen_fea,
                   gen_size_fea, gen_outs, gen_result>>
    /\ UNCHANGED <<bnVars, rdbVars, discVars>>

\* line 92
GenInput ==
    /\ gen_pc = "input"
    /\ gen_outs' = ("input_image" :>
                        NewTensor(gen_args.ih, gen_args.iw, gen_args.channels,
                                  "input_image"))
    /\ gen_pc' = "conv_first"
    /\ UNCHANGED <<gen_args, gen_nf, gen_nb, gen_trunk, gen_i, gen_t, gen_fea,
                   gen_size_fea, gen_result>>
    /\ UNCHANGED <<bnVars, rdbVars, discVars>>

\* line 93
GenConvFirst ==
    /\ gen_pc = "conv_first"
    /\ LET t == Conv2D(gen_outs["input_image"], gen_nf, 1, "conv_first")
       IN /\ gen_fea' = t
          /\ gen_t' = t
          /\ gen_outs' = ("conv_first" :> t) @@ gen_outs
    /\ gen_pc' = "rrdb_trunk"
    /\ UNCHANGED <<gen_args, gen_nf, gen_nb, gen_trunk, gen_i, gen_size_fea,
                   gen_result>>
    /\ UNCHANGED <<bnVars, rdbVars, discVars>>

\* line 94: the Sequential applies its blocks in order, then hands on its
\* output
GenTrunk ==
    /\ gen_pc = "rrdb_trunk"
    /\ IF gen_i < Len(gen_trunk)
       THEN /\ gen_t' = ResInResDenseBlock(gen_t, gen_nf, gen_args.gc,
                                           DefaultBeta)
            /\ gen_i' = gen_i + 1
            /\ UNCHANGED <<gen_outs, gen_pc>>
       ELSE /\ gen_outs' = ("RRDB_trunk" :> Bind(gen_t, "RRDB_trunk"))
                           @@ gen_outs
            /\ gen_pc' = "conv_trunk"
            /\ UNCHANGED <<gen_t, gen_i>>
    /\ UNCHANGED <<gen_args, gen_nf, gen_nb, gen_trunk, gen_fea, gen_size_fea,
                   gen_result>>
    /\ UNCHANGED <<bnVars, rdbVars, discVars>>

\* line 95
GenConvTrunk ==
    /\ gen_pc = "conv_trunk"
    /\ gen_outs' = ("conv_trunk" :>
                        Conv2D(gen_outs["RRDB_trunk"], gen_nf, 1, "conv_trunk"))
                   @@ gen_outs
    /\ gen_pc' = "add"
    /\ UNCHANGED <<gen_args, gen_nf, gen_nb, gen_trunk, gen_i, gen_t, gen_fea,
                   gen_size_fea, gen_result>>
    /\ UNCHANGED <<bnVars, rdbVars, discVars>>

\* lines 96 and 99-100
GenLongResidual ==
    /\ gen_pc = "add"
    /\ LET t == Add(gen_fea, gen_outs["conv_trunk"])
       IN /\ gen_fea' = t
          /\ gen_outs' = ("add" :> t) @@ gen_outs
          /\ gen_size_fea' = SizeFea(gen_args.size, t)
    /\ gen_pc' = "upsample_nn_1"
    /\ UNCHANGED <<gen_args, gen_nf, gen_nb, gen_trunk, gen_i, gen_t,
                   gen_result>>
    /\ UNCHANGED <<bnVars, rdbVars, discVars>>

\* lines 101-102 (scale 2, stage 1) and 104-105 (scale 4, stage 2)
GenResize(stage, scale) ==
    /\ gen_pc = IF stage = 1 THEN "upsample_nn_1" ELSE "upsample_nn_2"
    /\ LET to == ResizeTarget(gen_size_fea, scale)
           name == IF stage = 1 THEN "upsample_nn_1" ELSE "upsample_nn_2"
       IN gen_outs' = (name :> Resize(gen_fea, to[1], to[2], name)) @@ gen_outs
    /\ gen_pc' = IF stage = 1 THEN "upconv_1" ELSE "upconv_2"
    /\ UNCHANGED <<gen_args, gen_nf, gen_nb, gen_trunk, gen_i, gen_t, gen_fea,
                   gen_size_fea, gen_result>>
    /\ UNCHANGED <<bnVars, rdbVars, discVars>>

\* lines 103 and 106
GenUpConv(stage) ==
    /\ gen_pc = IF stage = 1 THEN "upconv_1" ELSE "upconv_2"
    /\ LET from == IF stage = 1 THEN "upsample_nn_1" ELSE "upsample_nn_2"
           name == IF stage = 1 THEN "upconv_1" ELSE "upconv_2"
           t == Conv2D(gen_outs[from], gen_nf, 1, name)
       IN /\ gen_fea' = t
          /\ gen_outs' = (name :> t) @@ gen_outs
    /\ gen_pc' = IF stage = 1 THEN "upsample_nn_2" ELSE "conv_hr"
    /\ UNCHANGED <<gen_args, gen_nf, gen_nb, gen_trunk, gen_i, gen_t,
                   gen_size_fea, gen_result>>
    /\ UNCHANGED <<bnVars, rdbVars, discVars>>

\* line 107
GenConvHr ==
    /\ gen_pc = "conv_hr"
    /\ LET t == Conv2D(gen_fea, gen_nf, 1, "conv_hr")
       IN /\ gen_fea' = t
          /\ gen_outs' = ("conv_hr" :> t) @@ gen_outs
    /\ gen_pc' = "conv_last"
    /\ UNCHANGED <<gen_args, gen_nf, gen_nb, gen_trunk, gen_i, gen_t,
                   gen_size_fea, gen_result>>
    /\ UNCHANGED <<bnVars, rdbVars, discVars>>

\* line 108
GenConvLast ==
    /\ gen_pc = "conv_last"
    /\ gen_outs' = ("conv_last" :>
                        Conv2D(gen_fea, LastFilters(gen_args.channels, gen_nf),
                               1, "conv_last"))
                   @@ gen_outs
    /\ gen_pc' = "model"
    /\ UNCHANGED <<gen_args, gen_nf, gen_nb, gen_trunk, gen_i, gen_t, gen_fea,
                   gen_size_fea, gen_result>>
    /\ UNCHANGED <<bnVars, rdbVars, discVars>>

\* line 110
GenModel ==
    /\ gen_pc = "model"
    /\ gen_result' = [error |-> "none",
                      model |-> [built |-> TRUE,
                                 inputs |-> gen_outs["input_image"],
                                 outputs |-> gen_outs["conv_last"]]]
    /\ gen_pc' = "returned"
    /\ UNCHANGED <<gen_args, gen_nf, gen_nb, gen_trunk, gen_i, gen_t, gen_fea,
                   gen_size_fea, gen_outs>>
    /\ UNCHANGED <<bnVars, rdbVars, discVars>>

GenNext ==
    \/ GenLookup
    \/ GenBuildTrunk
    \/ GenInput
    \/ GenConvFirst
    \/ GenTrunk
    \/ GenConvTrunk
    \/ GenLongResidual
    \/ GenResize(1, 2)
    \/ GenUpConv(1)
    \/ GenResize(2, 4)
    \/ GenUpConv(2)
    \/ GenConvHr
    \/ GenConvLast
    \/ GenModel

----------------------------------------------------------------------------
(* DiscriminatorVGG128 (lines 114-158).                                    *)

ConvK3S1(name, filters, use_bias) ==
    [name |-> name, kind |-> "conv", kernel_size |-> 3, strides |-> 1,
     filters |-> filters, use_bias |-> use_bias, activation |-> None]

ConvK4S2(name, filters, use_bias) ==
    [name |-> name, kind |-> "conv", kernel_size |-> 4, strides |-> 2,
     filters |-> filters, use_bias |-> use_bias, activation |-> None]

Plain(name, kind) ==
    [name |-> name, kind |-> kind, kernel_size |-> 0, strides |-> 1,
     filters |-> 0, use_bias |-> FALSE, activation |-> None]

DenseLayer(name, units) ==
    [name |-> name, kind |-> "dense", kernel_size |-> 0, strides |-> 1,
     filters |-> units, use_bias |-> TRUE, activation |-> None]

\* faulty variant: stage 0 gets the activation of the later stages
DiscLayersGelu0(nf) ==
    << ConvK3S1("conv0_0", nf, TRUE), Plain("gelu0", "gelu"),
       ConvK4S2("conv0_1", nf, FALSE), Plain("bn0_1", "bn"),
       ConvK3S1("conv1_0", nf * 2, FALSE), Plain("gelu1", "gelu"),
       ConvK4S2("conv1_1", nf * 2, FALSE), Plain("bn1_1", "bn"),
       ConvK3S1("conv2_0", nf * 4, FALSE), Plain("gelu2", "gelu"),
       ConvK4S2("conv2_1", nf * 4, FALSE), Plain("bn2_1", "bn"),
       ConvK3S1("conv3_0", nf * 8, FALSE), Plain("gelu3", "gelu"),
       ConvK4S2("conv3_1", nf * 8, FALSE), Plain("bn3_1", "bn"),
       ConvK3S1("conv4_0", nf * 8, FALSE), Plain("gelu4", "gelu"),
       ConvK4S2("conv4_1", nf * 8, FALSE), Plain("bn4_1", "bn"),
       Plain("global_average_pooling2d", "gap"), DenseLayer("linear1", 1) >>

\* faulty variant: the width keeps doubling in the last stage
DiscLayersUncapped(nf) ==
    << ConvK3S1("conv0_0", nf, TRUE),
       ConvK4S2("conv0_1", nf, FALSE), Plain("bn0_1", "bn"),
       ConvK3S1("conv1_0", nf * 2, FALSE), Plain("gelu1", "gelu"),
       ConvK4S2("conv1_1", nf * 2, FALSE), Plain("bn1_1", "bn"),
       ConvK3S1("conv2_0", nf * 4, FALSE), Plain("gelu2", "gelu"),
       ConvK4S2("conv2_1", nf * 4, FALSE), Plain("bn2_1", "bn"),
       ConvK3S1("conv3_0", nf * 8, FALSE), Plain("gelu3", "gelu"),
       ConvK4S2("conv3_1", nf * 8, FALSE), Plain("bn3_1", "bn"),
       ConvK3S1("conv4_0", nf * 16, FALSE), Plain("gelu4", "gelu"),
       ConvK4S2("conv4_1", nf * 16, FALSE), Plain("bn4_1", "bn"),
       Plain("global_average_pooling2d", "gap"), DenseLayer("linear1", 1) >>

\* faulty variant: the head scores every channel
DiscLayersWideHead(nf) ==
    << ConvK3S1("conv0_0", nf, TRUE),
       ConvK4S2("conv0_1", nf, FALSE), Plain("bn0_1", "bn"),
       ConvK3S1("conv1_0", nf * 2, FALSE), Plain("gelu1", "gelu"),
       ConvK4S2("conv1_1", nf * 2, FALSE), Plain("bn1_1", "bn"),
       ConvK3S1("conv2_0", nf * 4, FALSE), Plain("gelu2", "gelu"),
       ConvK4S2("conv2_1", nf * 4, FALSE), Plain("bn2_1", "bn"),
       ConvK3S1("conv3_0", nf * 8, FALSE), Plain("gelu3", "gelu"),
       ConvK4S2("conv3_1", nf * 8, FALSE), Plain("bn3_1", "bn"),
       ConvK3S1("conv4_0", nf * 8, FALSE), Plain("gelu4", "gelu"),
       ConvK4S2("conv4_1", nf * 8, FALSE), Plain("bn4_1", "bn"),
       Plain("global_average_pooling2d", "gap"),
       DenseLayer("linear1", nf * 8) >>

\* lines 130-156: the layers, in the order they are applied
DiscLayers(nf) ==
    << ConvK3S1("conv0_0", nf, TRUE),
       ConvK4S2("conv0_1", nf, FALSE), Plain("bn0_1", "bn"),
       ConvK3S1("conv1_0", nf * 2, FALSE), Plain("gelu1", "gelu"),
       ConvK4S2("conv1_1", nf * 2, FALSE), Plain("bn1_1", "bn"),
       ConvK3S1("conv2_0", nf * 4, FALSE), Plain("gelu2", "gelu"),
       ConvK4S2("conv2_1", nf * 4, FALSE), Plain("bn2_1", "bn"),
       ConvK3S1("conv3_0", nf * 8, FALSE), Plain("gelu3", "gelu"),
       ConvK4S2("conv3_1", nf * 8, FALSE), Plain("bn3_1", "bn"),
       ConvK3S1("conv4_0", nf * 8, FALSE), Plain("gelu4", "gelu"),
       ConvK4S2("conv4_1", nf * 8, FALSE), Plain("bn4_1", "bn"),
       Plain("global_average_pooling2d", "gap"), DenseLayer("linear1", 1) >>

\* a rank-2 tensor [batch, units]
Vector(units, name) == [units |-> units, terms |-> Atom(name)]

\* GlobalAveragePooling2D()(t): the mean over height and width
GlobalAveragePooling2D(t, name) == Vector(Channels(t), name)

\* Dense(units)(v)
Dense(v, units, name) == Vector(units, name)

DiscArgs == [size : 1..MaxDiscSize, channels : 1..MaxChannels, nf : 1..MaxNf]

\* the next layer call of lines 130-156
NextLayer == DiscLayers(disc_args.nf)[Len(disc_layers) + 1]

DiscApplied(t, shape) ==
    /\ disc_x' = t
    /\ disc_layers' = Append(disc_layers, NextLayer)
    /\ disc_shapes' = Append(disc_shapes, shape)
    /\ disc_pc' = IF Len(disc_layers) + 1 = Len(DiscLayers(disc_args.nf))
                  THEN "model" ELSE "layers"
    /\ UNCHANGED <<disc_args, disc_result, bnVars, rdbVars, genVars>>

\* line 127
DiscInput ==
    /\ disc_pc = "input"
    /\ disc_x' = NewTensor(disc_args.size, disc_args.size, disc_args.channels,
                           "input")
    /\ disc_pc' = "layers"
    /\ UNCHANGED <<disc_args, disc_layers, disc_shapes, disc_result, bnVars,
                   rdbVars, genVars>>

\* lines 130, 131, 134, 136, 139, 141, 144, 146, 149, 151
DiscConv ==
    /\ disc_pc = "layers"
    /\ NextLayer.kind = "conv"
    /\ LET t == Conv2D(disc_x, NextLayer.filters, NextLayer.strides,
                       NextLayer.name)
       IN DiscApplied(t, Shape(t))

\* lines 135, 140, 145, 150
DiscGelu ==
    /\ disc_pc = "layers"
    /\ NextLayer.kind = "gelu"
    /\ LET t == Elementwise(disc_x, NextLayer.name)
       IN DiscApplied(t, Shape(t))

\* lines 132, 137, 142, 147, 152
DiscBatchNorm ==
    /\ disc_pc = "layers"
    /\ NextLayer.kind = "bn"
    /\ LET t == Elementwise(disc_x, NextLayer.name)
       IN DiscApplied(t, Shape(t))

\* line 155
DiscPool ==
    /\ disc_pc = "layers"
    /\ NextLayer.kind = "gap"
    /\ LET v == GlobalAveragePooling2D(disc_x, NextLayer.name)
       IN DiscApplied(v, <<v.units>>)

\* line 156
DiscDense ==
    /\ disc_pc = "layers"
    /\ NextLayer.kind = "dense"
    /\ LET v == Dense(disc_x, NextLayer.filters, NextLayer.name)
       IN DiscApplied(v, <<v.units>>)

\* line 158
DiscModel ==
    /\ disc_pc = "model"
    /\ disc_result' = [built |-> TRUE, output_shape |-> <<disc_x.units>>]
    /\ disc_pc' = "returned"
    /\ UNCHANGED <<disc_args, disc_x, disc_layers, disc_shapes, bnVars,
                   rdbVars, genVars>>

DiscNext ==
    \/ DiscInput
    \/ DiscConv
    \/ DiscGelu
    \/ DiscBatchNorm
    \/ DiscPool
    \/ DiscDense
    \/ DiscModel

----------------------------------------------------------------------------
(* The specifications: one component runs, the others stay idle.           *)

InitBN ==
    /\ trainable = TRUE
    /\ moving_mean = InitialMean
    /\ moving_variance = InitialVariance
    /\ bn_last = NoCall
    /\ blk = [nf |-> 1, gc |-> 1, res_beta |-> 2]
    /\ rrdb_x = ShapeError
    /\ rrdb_pc = "idle"
    /\ rrdb_out = ShapeError
    /\ rrdb_ret = NoReturn
    /\ rdb_no = 1
    /\ rdb_xs = <<>>
    /\ rdb_in = <<>>
    /\ rdb_ret = NoReturn
    /\ gen_args = [size |-> NoSize, channels |-> 1, cfg_net |-> NoFunction,
                   gc |-> 1, ih |-> 1, iw |-> 1]
    /\ gen_pc = "idle"
    /\ gen_nf = 0
    /\ gen_nb = 0
    /\ gen_trunk = <<>>
    /\ gen_i = 0
    /\ gen_t = ShapeError
    /\ gen_fea = ShapeError
    /\ gen_size_fea = <<>>
    /\ gen_outs = NoFunction
    /\ gen_result = [error |-> "none", model |-> NoModel]
    /\ disc_args = [size |-> 1, channels |-> 1, nf |-> 1]
    /\ disc_pc = "idle"
    /\ disc_x = ShapeError
    /\ disc_layers = <<>>
    /\ disc_shapes = <<>>
    /\ disc_result = [built |-> FALSE, output_shape |-> <<>>]

InitRDB ==
    /\ trainable = TRUE
    /\ moving_mean = InitialMean
    /\ moving_variance = InitialVariance
    /\ bn_last = NoCall
    /\ blk \in [nf : 1..MaxNf, gc : 1..MaxGc, res_beta : ResBetas]
    /\ \E h \in 1..MaxDim, w \in 1..MaxDim, c \in 1..(MaxNf + 1) :
           rrdb_x = NewTensor(h, w, c, "x")
    /\ rrdb_pc = "rdb"
    /\ rrdb_out = ShapeError
    /\ rrdb_ret = NoReturn
    /\ rdb_no = 1
    /\ rdb_xs = <<rrdb_x>>
    /\ rdb_in = <<>>
    /\ rdb_ret = NoReturn
    /\ gen_args = [size |-> NoSize, channels |-> 1, cfg_net |-> NoFunction,
                   gc |-> 1, ih |-> 1, iw |-> 1]
    /\ gen_pc = "idle"
    /\ gen_nf = 0
    /\ gen_nb = 0
    /\ gen_trunk = <<>>
    /\ gen_i = 0
    /\ gen_t = ShapeError
    /\ gen_fea = ShapeError
    /\ gen_size_fea = <<>>
    /\ gen_outs = NoFunction
    /\ gen_result = [error |-> "none", model |-> NoModel]
    /\ disc_args = [size |-> 1, channels |-> 1, nf |-> 1]
    /\ disc_pc = "idle"
    /\ disc_x = ShapeError
    /\ disc_layers = <<>>
    /\ disc_shapes = <<>>
    /\ disc_result = [built |-> FALSE, output_shape |-> <<>>]

InitGen ==
    /\ trainable = TRUE
    /\ moving_mean = InitialMean
    /\ moving_variance = InitialVariance
    /\ bn_last = NoCall
    /\ blk = [nf |-> 1, gc |-> 1, res_beta |-> 2]
    /\ rrdb_x = ShapeError
    /\ rrdb_pc = "idle"
    /\ rrdb_out = ShapeError
    /\ rrdb_ret = NoReturn
    /\ rdb_no = 1
    /\ rdb_xs = <<>>
    /\ rdb_in = <<>>
    /\ rdb_ret = NoReturn
    /\ gen_args \in GenArgs
    /\ gen_pc = "cfg"
    /\ gen_nf = 0
    /\ gen_nb = 0
    /\ gen_trunk = <<>>
    /\ gen_i = 0
    /\ gen_t = ShapeError
    /\ gen_fea = ShapeError
    /\ gen_size_fea = <<>>
    /\ gen_outs = NoFunction
    /\ gen_result = [error |-> "none", model |-> NoModel]
    /\ disc_args = [size |-> 1, channels |-> 1, nf |-> 1]
    /\ disc_pc = "idle"
    /\ disc_x = ShapeError
    /\ disc_layers = <<>>
    /\ disc_shapes = <<>>
    /\ disc_result = [built |-> FALSE, output_shape |-> <<>>]

InitDisc ==
    /\ trainable = TRUE
    /\ moving_mean = InitialMean
    /\ moving_variance = InitialVariance
    /\ bn_last = NoCall
    /\ blk = [nf |-> 1, gc |-> 1, res_beta |-> 2]
    /\ rrdb_x = ShapeError
    /\ rrdb_pc = "idle"
    /\ rrdb_out = ShapeError
    /\ rrdb_ret = NoReturn
    /\ rdb_no = 1
    /\ rdb_xs = <<>>
    /\ rdb_in = <<>>
    /\ rdb_ret = NoReturn
    /\ gen_args = [size |-> NoSize, channels |-> 1, cfg_net |-> NoFunction,
                   gc |-> 1, ih |-> 1, iw |-> 1]
    /\ gen_pc = "idle"
    /\ gen_nf = 0
    /\ gen_nb = 0
    /\ gen_trunk = <<>>
    /\ gen_i = 0
    /\ gen_t = ShapeError
    /\ gen_fea = ShapeError
    /\ gen_size_fea = <<>>
    /\ gen_outs = NoFunction
    /\ gen_result = [error |-> "none", model |-> NoModel]
    /\ disc_args \in DiscArgs
    /\ disc_pc = "input"
    /\ disc_x = ShapeError
    /\ disc_layers = <<>>
    /\ disc_shapes = <<>>
    /\ disc_result = [built |-> FALSE, output_shape |-> <<>>]

SpecBN == InitBN /\ [][BNNext]_vars
SpecRDB == InitRDB /\ [][RDBNext]_vars
SpecGen == InitGen /\ [][GenNext]_vars
SpecDisc == InitDisc /\ [][DiscNext]_vars

----------------------------------------------------------------------------
(* Properties of BatchNormalization, under SpecBN.                         *)

\* C2: the flag handed to the inherited call is the caller's flag AND the
\* layer's trainable flag, None counting as False; and, in every state with
\* trainable = False, call(x, training=True) and call(x, training=False)
\* give the same output for every batch x.
C2_GatedFlag ==
    /\ bn_last.called =>
           bn_last.flag = ((bn_last.training = "True") /\ bn_last.trainable)
    /\ ~trainable =>
           \A x \in Batches :
               CallResult(x, "True", trainable, moving_mean,
                          moving_variance).out
               = CallResult(x, "False", trainable, moving_mean,
                            moving_variance).out

\* a frozen layer, with running statistics that earlier training passes have
\* moved, was called with training=True on a batch whose own statistics
\* would have given another output
C2_Witness ==
    /\ bn_last.called
    /\ bn_last.training = "True"
    /\ ~bn_last.trainable
    /\ ~trainable
    /\ moving_mean # InitialMean
    /\ bn_last.out # Normalize(bn_last.x, BatchMean(bn_last.x),
                               BatchVariance(bn_last.x))

\* C3: while trainable = False no step changes the running statistics, and
\* every call made then normalises with the stored running statistics,
\* whatever training flag the caller gives.
C3_FrozenStatistics ==
    [][~trainable =>
           /\ moving_mean' = moving_mean
           /\ moving_variance' = moving_variance
           /\ (bn_last' # bn_last =>
                   bn_last'.out = Normalize(bn_last'.x, moving_mean,
                                            moving_variance))]_vars

\* a frozen layer whose variance estimate had moved was called with
\* training=True on a batch with a spread of its own, and kept its estimate
C3_Witness ==
    /\ ~trainable
    /\ bn_last.called
    /\ ~bn_last.trainable
    /\ bn_last.training = "True"
    /\ moving_variance # InitialVariance
    /\ BatchVariance(bn_last.x) # moving_variance
    /\ bn_last.out = Normalize(bn_last.x, moving_mean, moving_variance)

----------------------------------------------------------------------------
(* Properties of the dense blocks, under SpecRDB.                          *)

SameShape(a, b) == ~IsError(a) /\ ~IsError(b) /\ Shape(a) = Shape(b)

\* C5: with an input of nf channels, ResDenseBlock_5C and ResInResDenseBlock
\* return a tensor of the shape of their input, and the two operands of the
\* residual sum have the same shape.
C5_ShapePreserving ==
    /\ (rdb_ret.returned /\ Channels(rdb_ret.x) = blk.nf) =>
           /\ SameShape(rdb_ret.body, rdb_ret.x)
           /\ SameShape(rdb_ret.out, rdb_ret.x)
    /\ (rrdb_ret.returned /\ Channels(rrdb_ret.x) = blk.nf) =>
           /\ SameShape(rrdb_ret.body, rrdb_ret.x)
           /\ SameShape(rrdb_ret.out, rrdb_ret.x)
    /\ Channels(rrdb_x) = blk.nf => rrdb_pc # "error"

\* the whole block has returned, for a non-square input and nf # gc
C5_Witness ==
    /\ rrdb_pc = "done"
    /\ rrdb_ret.returned
    /\ Channels(rrdb_x) = blk.nf
    /\ blk.nf # blk.gc
    /\ rrdb_x.h # rrdb_x.w

\* C7: convolution k is given x, x1, .., x(k-1) concatenated in that order
\* along the channel axis, nf + (k-1)*gc channels for an input of nf
\* channels; convolutions 1 to 4 give gc channels and convolution 5 gives nf;
\* the block returns x + res_beta * x5.
C7_DenseConnectivity ==
    /\ \A k \in DOMAIN rdb_in :
           /\ Len(rdb_in[k].groups) = k
           /\ rdb_in[k].groups[1] = rdb_xs[1].groups[1]
           /\ rdb_in[k].groups[1].terms = Atom("x")
           /\ \A j \in 1..(k - 1) :
                  /\ rdb_in[k].groups[j + 1].terms = Atom(XNames[j])
                  /\ rdb_in[k].groups[j + 1].ch = blk.gc
           /\ Channels(rdb_xs[1]) = blk.nf =>
                  Channels(rdb_in[k]) = blk.nf + (k - 1) * blk.gc
           /\ Channels(rdb_xs[k + 1]) = IF k <= 4 THEN blk.gc ELSE blk.nf
           /\ rdb_xs[k + 1].groups[1].terms = Atom(XNames[k])
    /\ (rdb_ret.returned /\ ~IsError(rdb_ret.out)) =>
           /\ rdb_ret.x.groups[1].terms = Atom("x")
           /\ rdb_ret.body.groups[1].terms = Atom("x5")
           /\ Terms(rdb_ret.out) = {<<<<>>, "x">>, <<<<blk.res_beta>>, "x5">>}

\* the second or third block of the chain has run its five convolutions
C7_Witness ==
    /\ Len(rdb_in) = NumConvs
    /\ rdb_ret.returned
    /\ Channels(rdb_xs[1]) = blk.nf
    /\ blk.nf # blk.gc
    /\ Channels(rdb_in[NumConvs]) = blk.nf + 4 * blk.gc

----------------------------------------------------------------------------
(* Properties of RRDB_Model, under SpecGen.                                *)

\* C1: the model RRDB_Model returns maps an image of height h, width w and
\* `channels` channels to one of height 4h, width 4w and `channels` channels,
\* for an integer size (h = w = size) and for size None.
C1_FourTimesOutput ==
    gen_result.model.built =>
        LET i == gen_result.model.inputs
            o == gen_result.model.outputs
        IN /\ Shape(i) = <<gen_args.ih, gen_args.iw, gen_args.channels>>
           /\ (gen_args.size # NoSize =>
                   i.h = gen_args.size[1] /\ i.w = gen_args.size[1])
           /\ Shape(o) = <<4 * i.h, 4 * i.w, gen_args.channels>>

\* a model built with size None, fed a non-square image, nf # channels
C1_Witness ==
    /\ gen_result.model.built
    /\ gen_args.size = NoSize
    /\ gen_args.ih # gen_args.iw
    /\ gen_args.channels # gen_nf
    /\ gen_nb = MaxNb

\* C6: when cfg_net lacks the key nf or the key nb, the run ends in a
\* KeyError at the lookup and returns no model.
C6_MissingKeyRaises ==
    (~(CfgKeys \subseteq DOMAIN gen_args.cfg_net) /\ gen_pc # "cfg") =>
        /\ gen_pc = "raised"
        /\ gen_result.error = "KeyError"
        /\ ~gen_result.model.built
        /\ gen_outs = NoFunction

\* the run has raised for a cfg_net that has nf and lacks nb
C6_Witness ==
    /\ gen_pc = "raised"
    /\ DOMAIN gen_args.cfg_net = {"nf"}
    /\ gen_result.error = "KeyError"

DimsOf(name) == <<gen_outs[name].h, gen_outs[name].w>>
Times(k) == <<k * gen_args.ih, k * gen_args.iw>>

\* C10: the first resize gives 2 times and the second 4 times the input's
\* height and width, the second being 2 times the output of stage 1; with an
\* integer size the targets are size*2 and size*4, with size None they are 2
\* and 4 times the shape of the long-residual sum; the convolutions around
\* the resizes keep the height and width.
C10_UpsampleStages ==
    /\ "add" \in DOMAIN gen_outs => DimsOf("add") = Times(1)
    /\ "upsample_nn_1" \in DOMAIN gen_outs =>
           /\ DimsOf("upsample_nn_1") = Times(2)
           /\ DimsOf("upsample_nn_1")
              = <<2 * gen_outs["add"].h, 2 * gen_outs["add"].w>>
           /\ gen_args.size # NoSize =>
                  DimsOf("upsample_nn_1")
                  = <<gen_args.size[1] * 2, gen_args.size[1] * 2>>
    /\ "upconv_1" \in DOMAIN gen_outs => DimsOf("upconv_1") = Times(2)
    /\ "upsample_nn_2" \in DOMAIN gen_outs =>
           /\ DimsOf("upsample_nn_2") = Times(4)
           /\ DimsOf("upsample_nn_2")
              = <<2 * gen_outs["upconv_1"].h, 2 * gen_outs["upconv_1"].w>>
           /\ DimsOf("upsample_nn_2")
              = <<4 * gen_outs["add"].h, 4 * gen_outs["add"].w>>
           /\ gen_args.size # NoSize =>
                  DimsOf("upsample_nn_2")
                  = <<gen_args.size[1] * 4, gen_args.size[1] * 4>>
    /\ "upconv_2" \in DOMAIN gen_outs => DimsOf("upconv_2") = Times(4)
    /\ "conv_hr" \in DOMAIN gen_outs => DimsOf("conv_hr") = Times(4)
    /\ "conv_last" \in DOMAIN gen_outs => DimsOf("conv_last") = Times(4)

\* size=32: the resizes gave 64 x 64 and 128 x 128, the output is 128 x 128 x 3
C10_Witness ==
    /\ gen_pc = "returned"
    /\ gen_args.size = <<32>>
    /\ gen_args.channels = 3
    /\ gen_nb = 2
    /\ DimsOf("upsample_nn_1") = <<64, 64>>
    /\ DimsOf("upsample_nn_2") = <<128, 128>>
    /\ Shape(gen_result.model.outputs) = <<128, 128, 3>>

----------------------------------------------------------------------------
(* Properties of DiscriminatorVGG128, under SpecDisc.                      *)

Divisible == disc_args.size % 32 = 0

\* C4: for every size divisible by 32 and every channels and nf, the model
\* DiscriminatorVGG128 returns has output shape [batch, 1].
C4_ScalarOutput ==
    (disc_result.built /\ Divisible) => disc_result.output_shape = <<1>>

\* the model for size=128, channels=3
C4_Witness ==
    /\ disc_result.built
    /\ disc_args.size = 128
    /\ disc_args.channels = 3
    /\ disc_result.output_shape = <<1>>

\* the stage a layer belongs to: the number of batch norms before it
StageOf(i) == Cardinality({j \in 1..(i - 1) : disc_layers[j].kind = "bn"})
StageWidth == <<1, 2, 4, 8, 8>>
Strided(l) == l.kind = "conv" /\ l.strides = 2
Complete == disc_pc \in {"model", "returned"}

\* C8: there are exactly 5 stages, each halving the height and width, so
\* that for a size divisible by 32 stage k ends at size / 2^(k+1); the
\* widths after stages 0..4 are nf, nf*2, nf*4, nf*8, nf*8.
C8_StagePyramid ==
    /\ \A i \in DOMAIN disc_layers :
           /\ disc_layers[i].kind \in {"conv", "gelu", "bn"} => StageOf(i) <= 4
           /\ disc_layers[i].kind = "bn" =>
                  /\ disc_shapes[i][3] = disc_args.nf * StageWidth[StageOf(i) + 1]
                  /\ Divisible =>
                         /\ disc_shapes[i][1]
                            = disc_args.size \div (2 ^ (StageOf(i) + 1))
                         /\ disc_shapes[i][2]
                            = disc_args.size \div (2 ^ (StageOf(i) + 1))
           /\ (Strided(disc_layers[i]) /\ Divisible) =>
                  /\ 2 * disc_shapes[i][1] = disc_shapes[i - 1][1]
                  /\ 2 * disc_shapes[i][2] = disc_shapes[i - 1][2]
    /\ Complete =>
           /\ Cardinality({i \in DOMAIN disc_layers :
                               Strided(disc_layers[i])}) = 5
           /\ Cardinality({i \in DOMAIN disc_layers :
                               disc_layers[i].kind = "bn"}) = 5

\* size=64, nf=2: stage 4 ends at 2 x 2 with 16 channels
C8_Witness ==
    /\ disc_pc = "returned"
    /\ disc_args.size = 64
    /\ disc_args.nf = 2
    /\ disc_shapes[3] = <<32, 32, 2>>
    /\ disc_shapes[15] = <<4, 4, 16>>
    /\ disc_shapes[19] = <<2, 2, 16>>

IsConv(l, kernel_size, strides, use_bias) ==
    /\ l.kind = "conv"
    /\ l.kernel_size = kernel_size
    /\ l.strides = strides
    /\ l.use_bias = use_bias
    /\ l.activation = None

\* C9: stage 0 is a biased 3x3 conv, an unbiased 4x4 stride-2 conv and a
\* batch norm, with no GELU; stages 1 to 4 are an unbiased 3x3 conv, a GELU,
\* an unbiased 4x4 stride-2 conv and a batch norm; conv0_0 is the only
\* biased convolution, there are exactly 4 GELUs, a batch norm follows every
\* stride-2 conv at once, and the sequence ends with the global average
\* pooling and a dense layer of 1 unit without activation.
C9_LayerSequence ==
    LET L == disc_layers
        Has(i) == i \in DOMAIN L
    IN /\ Has(1) => IsConv(L[1], 3, 1, TRUE) /\ L[1].name = "conv0_0"
       /\ Has(2) => IsConv(L[2], 4, 2, FALSE)
       /\ Has(3) => L[3].kind = "bn"
       /\ \A k \in 1..4 :
              LET b == 4 * k - 1
              IN /\ Has(b + 1) => IsConv(L[b + 1], 3, 1, FALSE)
                 /\ Has(b + 2) => L[b + 2].kind = "gelu"
                 /\ Has(b + 3) => IsConv(L[b + 3], 4, 2, FALSE)
                 /\ Has(b + 4) => L[b + 4].kind = "bn"
       /\ \A i \in DOMAIN L :
              /\ (L[i].kind = "conv" /\ L[i].use_bias) => i = 1
              /\ (Strided(L[i]) /\ Has(i + 1)) => L[i + 1].kind = "bn"
              /\ (L[i].kind = "gelu") => StageOf(i) >= 1
       /\ Complete =>
              /\ Len(L) = 21
              /\ Cardinality({i \in DOMAIN L : L[i].kind = "gelu"}) = 4
              /\ L[20].kind = "gap"
              /\ L[21].kind = "dense"
              /\ L[21].filters = 1
              /\ L[21].activation = None
              /\ disc_shapes[21] = <<1>>

\* the whole sequence has been applied
C9_Witness ==
    /\ disc_pc = "returned"
    /\ Len(disc_layers) = 21
    /\ disc_layers[1].use_bias
    /\ disc_layers[5].kind = "gelu"
    /\ disc_layers[21].kind = "dense"

====
